---- MODULE Spec2Model ----
(***************************************************************************)
(* Model of the VAD streaming service (server.py) and of the WAV file      *)
(* client (client.py).                                                     *)
(*                                                                         *)
(* Probabilities are integers in hundredths (0.7 is 70).  A chunk of audio *)
(* is modelled by its byte length together with what the scorer does with  *)
(* it (the scorer is an opaque collaborator: it returns a probability or   *)
(* raises).  The accumulator is the list of the byte lengths of the chunks *)
(* it holds; joining it gives the sum.                                     *)
(*                                                                         *)
(* A peer is one connection (context.peer()), and the client opens one     *)
(* ProcessAudio stream per channel, so a peer has one stream at a time.    *)
(* An iteration of the request loop and a ResetVAD call are each one step. *)
(* The logs fed, statuses and out record what a stream has read, computed  *)
(* and yielded; the code keeps none of them.                               *)
(***************************************************************************)
EXTENDS Integers, Sequences, FiniteSets, TLC

(* ---- bounds ---- *)
NumPeers == 2
MaxFrames == 3
MaxStreams == 2
MaxResets == 1
MaxWavChunks == 2

(* ---- program constants ---- *)
VAD_CHUNK_SIZE == 512
Threshold == 70

Peers == 1..NumPeers

(* Chunks a client may send: well-formed 1024-byte chunks scoring below,   *)
(* at and above the threshold, a long chunk, a chunk on which the scorer   *)
(* raises, and a chunk with an odd number of bytes.                        *)
Chunks ==
    { [len |-> 1024, raises |-> FALSE, prob |-> 10],
      [len |-> 1024, raises |-> FALSE, prob |-> 70],
      [len |-> 1024, raises |-> FALSE, prob |-> 90],
      [len |-> 2048, raises |-> FALSE, prob |-> 90],
      [len |-> 1024, raises |-> TRUE,  prob |-> 0],
      [len |-> 1023, raises |-> FALSE, prob |-> 90] }

(* The chunks of the runs with ResetVAD calls: silence, speech, scorer fault. *)
BasicChunks == {c \in Chunks : c.len = 2 * VAD_CHUNK_SIZE /\ c.prob # Threshold}

(* The scripted probabilities of the end-to-end scenario. *)
Script == <<10, 10, 90, 90, 90, 20, 20, 90, 10, 10>>

ScriptChunk(i) == [len |-> 2 * VAD_CHUNK_SIZE, raises |-> FALSE, prob |-> Script[i]]

VARIABLES
    client_processors,  \* VADServicer.client_processors: peer -> VADProcessor
    pc,                 \* per peer: position of its ProcessAudio handler
    fed,                \* per peer: chunks the current stream has read (log)
    statuses,           \* per peer: status process_chunk returned per chunk (log)
    out,                \* per peer: responses yielded on the current stream
    gen,                \* per peer: number of streams opened so far
    nframes,            \* chunks processed so far by the server, all streams
    resetResp,          \* responses returned by ResetVAD so far, per peer
    inbound,            \* per peer: the request iterator of its current stream
    wav,                \* FileVADClient.wav_file: the file on disk
    running,            \* FileVADClient.running
    cpc,                \* position of stream_file
    rpc,                \* position of the read_wav_file generator
    data,               \* read_wav_file: bytes in the chunk last read
    wpos,               \* read_wav_file: bytes of the data chunk consumed
    yielded,            \* buffers read_wav_file has yielded so far
    stopAt,             \* buffers yielded when stop_streaming was called (log)
    recv,               \* stream_file: responses received so far
    vad_events_queue,   \* FileVADClient.vad_events_queue
    stt_queue,          \* FileVADClient.stt_queue
    sttPuts,            \* every item ever put on stt_queue (log)
    sttRunning,         \* STTProcessor.running
    sttpc,              \* position of process_stt_queue
    sttTick,            \* flips each time the get of process_stt_queue times out
    mainpc              \* position of main

srvVars == <<client_processors, pc, fed, statuses, out, gen, nframes, resetResp,
             inbound>>

cliVars == <<wav, running, cpc, rpc, data, wpos, yielded>>

rtrVars == <<stopAt, recv, vad_events_queue, stt_queue, sttPuts, sttRunning, sttpc,
             sttTick, mainpc>>

vars == <<client_processors, pc, fed, statuses, out, gen, nframes, resetResp, inbound,
          wav, running, cpc, rpc, data, wpos, yielded,
          stopAt, recv, vad_events_queue, stt_queue, sttPuts, sttRunning, sttpc,
          sttTick, mainpc>>

(* ---- helpers ---- *)
RECURSIVE SumSeq(_)
SumSeq(s) == IF s = <<>> THEN 0 ELSE Head(s) + SumSeq(Tail(s))

RECURSIVE SumOver(_, _)
SumOver(f, S) ==
    IF S = {} THEN 0
    ELSE LET x == CHOOSE y \in S : TRUE IN f[x] + SumOver(f, S \ {x})

(* dict assignment d[k] = v *)
DictSet(d, k, v) == [x \in DOMAIN d \cup {k} |-> IF x = k THEN v ELSE d[x]]

(* ---- VADProcessor ---- *)
NewProcessor == [speech_detected |-> FALSE, accumulated_audio |-> <<>>]

(* np.frombuffer(audio_chunk, np.int16): raises unless the byte length is  *)
(* a whole number of 2-byte samples; otherwise gives len/2 samples.        *)
FrombufferRaises(chunk) == chunk.len % 2 # 0

FrombufferLen(chunk) == chunk.len \div 2

(* the pad-or-truncate of the decoded samples to VAD_CHUNK_SIZE *)
PadOrTruncate(n) ==
    IF n # VAD_CHUNK_SIZE
    THEN IF n > VAD_CHUNK_SIZE THEN VAD_CHUNK_SIZE
         ELSE n + (VAD_CHUNK_SIZE - n)
    ELSE n

SpeechDetectedNowGe(prob) == prob >= Threshold

SpeechDetectedNow(prob) == prob > Threshold

(* process_chunk that takes a failure for a chunk of silence *)
ProcessChunkFailSilent(p, chunk) ==
    IF FrombufferRaises(chunk) \/ chunk.raises
    THEN IF p.speech_detected
         THEN [proc |-> [p EXCEPT !.speech_detected = FALSE], status |-> "end"]
         ELSE [proc |-> p, status |-> "continue"]
    ELSE LET acc == Append(p.accumulated_audio, chunk.len)
             now == SpeechDetectedNow(chunk.prob)
         IN  IF now /\ ~p.speech_detected
             THEN [proc |-> [speech_detected |-> TRUE, accumulated_audio |-> acc],
                   status |-> "start"]
             ELSE IF ~now /\ p.speech_detected
             THEN [proc |-> [speech_detected |-> FALSE, accumulated_audio |-> acc],
                   status |-> "end"]
             ELSE [proc |-> [speech_detected |-> p.speech_detected,
                             accumulated_audio |-> acc],
                   status |-> "continue"]

(* process_chunk that forgets to set the flag on start *)
ProcessChunkNoFlag(p, chunk) ==
    IF FrombufferRaises(chunk) \/ chunk.raises
    THEN [proc |-> p, status |-> "continue"]
    ELSE LET acc == Append(p.accumulated_audio, chunk.len)
             now == SpeechDetectedNow(chunk.prob)
         IN  IF now /\ ~p.speech_detected
             THEN [proc |-> [speech_detected |-> FALSE, accumulated_audio |-> acc],
                   status |-> "start"]
             ELSE IF ~now /\ p.speech_detected
             THEN [proc |-> [speech_detected |-> FALSE, accumulated_audio |-> acc],
                   status |-> "end"]
             ELSE [proc |-> [speech_detected |-> p.speech_detected,
                             accumulated_audio |-> acc],
                   status |-> "continue"]

(* process_chunk: the new processor and the returned status *)
ProcessChunk(p, chunk) ==
    IF FrombufferRaises(chunk) \/ chunk.raises
    THEN [proc |-> p, status |-> "continue"]
    ELSE LET acc == Append(p.accumulated_audio, chunk.len)
             now == SpeechDetectedNow(chunk.prob)
         IN  IF now /\ ~p.speech_detected
             THEN [proc |-> [speech_detected |-> TRUE, accumulated_audio |-> acc],
                   status |-> "start"]
             ELSE IF ~now /\ p.speech_detected
             THEN [proc |-> [speech_detected |-> FALSE, accumulated_audio |-> acc],
                   status |-> "end"]
             ELSE [proc |-> [speech_detected |-> p.speech_detected,
                             accumulated_audio |-> acc],
                   status |-> "continue"]

(* get_accumulated_audio: the joined audio (its length) and the emptied processor *)
GetAccumulatedAudio(p) ==
    [audio |-> SumSeq(p.accumulated_audio),
     proc  |-> [p EXCEPT !.accumulated_audio = <<>>]]

ProcessorResetKeepsFlag(p) == [p EXCEPT !.accumulated_audio = <<>>]

ProcessorReset(p) == [speech_detected |-> FALSE, accumulated_audio |-> <<>>]

(* ---- VADServicer ---- *)
PeerOfShared(id) == 1

(* context.peer() *)
PeerOf(id) == id

(* the request loop with the continue branch enabled *)
HandleRequestAll(p, chunk) ==
    LET r == ProcessChunk(p, chunk) IN
    IF r.status = "end"
    THEN LET g == GetAccumulatedAudio(r.proc)
         IN  [proc |-> g.proc, status |-> r.status,
              resp |-> <<[event |-> r.status, message |-> "Speech ended",
                          bytes |-> g.audio]>>]
    ELSE IF r.status = "start"
    THEN [proc |-> r.proc, status |-> r.status,
          resp |-> <<[event |-> r.status, message |-> "Speech detected",
                      bytes |-> 0]>>]
    ELSE [proc |-> r.proc, status |-> r.status,
          resp |-> <<[event |-> r.status, message |-> "Processing...",
                      bytes |-> 0]>>]

(* one iteration of the request loop of ProcessAudio on processor p:       *)
(* the processor after it, the status, and the responses yielded (0 or 1)  *)
HandleRequest(p, chunk) ==
    LET r == ProcessChunk(p, chunk) IN
    IF r.status = "end"
    THEN LET g == GetAccumulatedAudio(r.proc)
         IN  [proc |-> g.proc, status |-> r.status,
              resp |-> <<[event |-> r.status, message |-> "Speech ended",
                          bytes |-> g.audio]>>]
    ELSE IF r.status = "start"
    THEN [proc |-> r.proc, status |-> r.status,
          resp |-> <<[event |-> r.status, message |-> "Speech detected",
                      bytes |-> 0]>>]
    ELSE [proc |-> r.proc, status |-> r.status, resp |-> <<>>]

(* a file the client may be pointed at: exists is os.path.exists, ok is    *)
(* whether wave.open accepts it, nbytes the length of its data chunk      *)
WavFiles ==
    [exists : BOOLEAN, ok : BOOLEAN, nchannels : {1, 2}, sampwidth : {1, 2},
     nbytes : {k * 2 * VAD_CHUNK_SIZE + r : k \in 0..MaxWavChunks, r \in {0, 1, 1000}}]

NoWav == [exists |-> FALSE, ok |-> FALSE, nchannels |-> 1, sampwidth |-> 2, nbytes |-> 0]

ServerInit ==
    /\ client_processors = [k \in {} |-> NewProcessor]
    /\ pc = [i \in Peers |-> "idle"]
    /\ fed = [i \in Peers |-> <<>>]
    /\ statuses = [i \in Peers |-> <<>>]
    /\ out = [i \in Peers |-> <<>>]
    /\ gen = [i \in Peers |-> 0]
    /\ nframes = 0
    /\ resetResp = [i \in Peers |-> <<>>]
    /\ inbound = [i \in Peers |-> "none"]

(* FileVADClient.__init__ *)
ClientInit(w) ==
    /\ wav = w
    /\ running = FALSE
    /\ cpc = "init"
    /\ rpc = "init"
    /\ data = 0
    /\ wpos = 0
    /\ yielded = <<>>
    /\ stopAt = <<>>
    /\ recv = 0
    /\ vad_events_queue = <<>>
    /\ stt_queue = <<>>
    /\ sttPuts = <<>>

(* STTProcessor.__init__, and main before it starts the threads *)
SttInit ==
    /\ sttRunning = FALSE
    /\ sttpc = "init"
    /\ sttTick = FALSE
    /\ mainpc = "join_vad"

Init == ServerInit /\ ClientInit(NoWav) /\ SttInit

(* ProcessAudio up to its request loop: look the peer up, create its       *)
(* processor when there is none.  One stream per peer at a time (a peer is *)
(* one connection and the client opens one stream per channel).            *)
OpenStream(id) ==
    /\ pc[id] \in {"idle", "OK", "INTERNAL"}
    /\ LET k == PeerOf(id) IN
       client_processors' =
           IF k \notin DOMAIN client_processors
           THEN DictSet(client_processors, k, NewProcessor)
           ELSE client_processors
    /\ pc' = [pc EXCEPT ![id] = "reading"]
    /\ fed' = [fed EXCEPT ![id] = <<>>]
    /\ statuses' = [statuses EXCEPT ![id] = <<>>]
    /\ out' = [out EXCEPT ![id] = <<>>]
    /\ gen' = [gen EXCEPT ![id] = @ + 1]
    /\ inbound' = [inbound EXCEPT ![id] = "open"]
    /\ UNCHANGED <<nframes, resetResp>>
    /\ UNCHANGED cliVars
    /\ UNCHANGED rtrVars

(* the request loop reads one chunk, processes it and, for start and end,  *)
(* yields the response (the generator is then suspended at the yield)      *)
ProcessFrame(id, chunk) ==
    /\ pc[id] = "reading"
    /\ LET k == PeerOf(id)
           h == HandleRequest(client_processors[k], chunk)
       IN  /\ client_processors' = DictSet(client_processors, k, h.proc)
           /\ statuses' = [statuses EXCEPT ![id] = Append(@, h.status)]
           /\ out' = [out EXCEPT ![id] = @ \o h.resp]
           /\ pc' = [pc EXCEPT ![id] = IF h.resp # <<>> THEN "yielded" ELSE "reading"]
    /\ fed' = [fed EXCEPT ![id] = Append(@, chunk)]
    /\ nframes' = nframes + 1
    /\ UNCHANGED <<gen, resetResp, inbound>>
    /\ UNCHANGED cliVars
    /\ UNCHANGED rtrVars

(* the transport has taken the response: the generator resumes at the loop *)
Resume(id) ==
    /\ pc[id] = "yielded"
    /\ pc' = [pc EXCEPT ![id] = "reading"]
    /\ UNCHANGED <<client_processors, fed, statuses, out, gen, nframes, resetResp, inbound>>
    /\ UNCHANGED cliVars
    /\ UNCHANGED rtrVars

FinallyNoReset(procs, id) == procs

(* a finally clause that resets every session of the registry *)
FinallyResetAll(procs, id) == [k \in DOMAIN procs |-> ProcessorReset(procs[k])]

(* the finally clause of ProcessAudio *)
Finally(procs, id) ==
    LET k == PeerOf(id) IN
    IF k \in DOMAIN procs
    THEN DictSet(procs, k, ProcessorReset(procs[k]))
    ELSE procs

(* an except clause that only logs *)
TerminalStatusSwallowed(cause) == "OK"

(* the status the call ends with: the except clause aborts with INTERNAL *)
TerminalStatus(cause) == IF cause = "error" THEN "INTERNAL" ELSE "OK"

(* the request iterator ends (cause = "eof") or raises (cause = "error",   *)
(* the except clause aborts the call); the finally clause runs in both     *)
Terminate(id, cause) ==
    /\ pc[id] = "reading"
    /\ client_processors' = Finally(client_processors, id)
    /\ pc' = [pc EXCEPT ![id] = TerminalStatus(cause)]
    /\ inbound' = [inbound EXCEPT ![id] = cause]
    /\ UNCHANGED <<fed, statuses, out, gen, nframes, resetResp>>
    /\ UNCHANGED cliVars
    /\ UNCHANGED rtrVars

(* a ResetVAD that creates the processor of a peer it does not know *)
ResetVADProcsCreates(procs, id) == DictSet(procs, PeerOf(id), NewProcessor)

(* ResetVAD: resets the peer's processor when there is one, returns success *)
ResetVADProcs(procs, id) ==
    LET k == PeerOf(id) IN
    IF k \in DOMAIN procs
    THEN DictSet(procs, k, ProcessorReset(procs[k]))
    ELSE procs

ResetVADSuccessIfPresent(procs, id) == PeerOf(id) \in DOMAIN procs

ResetVADSuccess(procs, id) == TRUE

ResetVAD(id) ==
    /\ client_processors' = ResetVADProcs(client_processors, id)
    /\ resetResp' = [resetResp EXCEPT ![id] = Append(@, ResetVADSuccess(client_processors, id))]
    /\ UNCHANGED <<pc, fed, statuses, out, gen, nframes, inbound>>
    /\ UNCHANGED cliVars
    /\ UNCHANGED rtrVars

Opened == SumOver(gen, Peers)

(* ---- FileVADClient ---- *)
(* Wave_read.readframes(n): up to n frames of nchannels * sampwidth bytes, *)
(* cut at the end of the data chunk                                        *)
Readframes(w, pos, n) ==
    LET want == n * w.nchannels * w.sampwidth
        left == w.nbytes - pos
    IN  IF want < left THEN want ELSE left

BytesPerChunk(w) == VAD_CHUNK_SIZE * w.sampwidth

(* b'\x00' * n is empty for n <= 0 *)
ZeroBytes(n) == IF n > 0 THEN n ELSE 0

(* the loop body with the padding not reduced by what was read *)
ChunkToYieldPadFull(w, d) ==
    IF d = BytesPerChunk(w)
    THEN [src |-> d, pad |-> 0]
    ELSE [src |-> d, pad |-> ZeroBytes(BytesPerChunk(w))]

(* the buffer the loop body yields for a read of d bytes: src bytes of the *)
(* file followed by pad zero bytes                                         *)
ChunkToYield(w, d) ==
    IF d = BytesPerChunk(w)
    THEN [src |-> d, pad |-> 0]
    ELSE [src |-> d, pad |-> ZeroBytes(BytesPerChunk(w) - d)]

BufLen(b) == b.src + b.pad

(* stream_file up to the call of ProcessAudio *)
StreamFileStart ==
    /\ cpc = "init"
    /\ running' = TRUE
    /\ cpc' = IF wav.exists THEN "streaming" ELSE "returned"
    /\ UNCHANGED <<wav, rpc, data, wpos, yielded>>
    /\ UNCHANGED srvVars
    /\ UNCHANGED rtrVars

(* read_wav_file up to its loop: wave.open raises on a file it cannot     *)
(* parse (the generator then ends), otherwise the first chunk is read      *)
RwfOpen ==
    /\ cpc = "streaming"
    /\ rpc = "init"
    /\ IF wav.ok
       THEN /\ data' = Readframes(wav, wpos, VAD_CHUNK_SIZE)
            /\ wpos' = wpos + Readframes(wav, wpos, VAD_CHUNK_SIZE)
            /\ rpc' = "loop"
       ELSE /\ rpc' = "done"
            /\ UNCHANGED <<data, wpos>>
    /\ UNCHANGED <<wav, running, cpc, yielded>>
    /\ UNCHANGED srvVars
    /\ UNCHANGED rtrVars

(* a loop that does not look at running *)
RwfLoopIgnoresStop ==
    /\ rpc = "loop"
    /\ rpc' = IF data > 0 THEN "body" ELSE "done"
    /\ UNCHANGED <<wav, running, cpc, data, wpos, yielded>>
    /\ UNCHANGED srvVars
    /\ UNCHANGED rtrVars

(* the loop test: while data and self.running *)
RwfLoop ==
    /\ rpc = "loop"
    /\ rpc' = IF data > 0 /\ running THEN "body" ELSE "done"
    /\ UNCHANGED <<wav, running, cpc, data, wpos, yielded>>
    /\ UNCHANGED srvVars
    /\ UNCHANGED rtrVars

(* the loop body up to the yield; stop_streaming may have been called     *)
(* since the test                                                         *)
RwfYield ==
    /\ rpc = "body"
    /\ yielded' = Append(yielded, ChunkToYield(wav, data))
    /\ rpc' = "yielded"
    /\ UNCHANGED <<wav, running, cpc, data, wpos>>
    /\ UNCHANGED srvVars
    /\ UNCHANGED rtrVars

(* after the yield: sleep, read the next chunk *)
RwfNext ==
    /\ rpc = "yielded"
    /\ data' = Readframes(wav, wpos, VAD_CHUNK_SIZE)
    /\ wpos' = wpos + Readframes(wav, wpos, VAD_CHUNK_SIZE)
    /\ rpc' = "loop"
    /\ UNCHANGED <<wav, running, cpc, yielded>>
    /\ UNCHANGED srvVars
    /\ UNCHANGED rtrVars

(* stop_streaming; a call while running is already False changes nothing *)
StopStreaming ==
    /\ running
    /\ running' = FALSE
    /\ stopAt' = IF cpc = "streaming" THEN Append(stopAt, Len(yielded)) ELSE stopAt
    /\ UNCHANGED <<wav, cpc, rpc, data, wpos, yielded>>
    /\ UNCHANGED <<recv, vad_events_queue, stt_queue, sttPuts, sttRunning, sttpc,
                   sttTick, mainpc>>
    /\ UNCHANGED srvVars

(* the peer of the file client's connection *)
ClientPeer == 1

(* a response loop that forwards every message to the STT queue *)
SttItemsAll(r) == <<r.message>>

(* what the response loop of stream_file puts on stt_queue for a response *)
SttItems(r) ==
    IF r.event = "end" THEN <<r.message>> ELSE <<>>

(* one iteration of the response loop of stream_file *)
ClientRecv ==
    /\ cpc = "streaming"
    /\ recv < Len(out[ClientPeer])
    /\ LET r == out[ClientPeer][recv + 1] IN
       /\ vad_events_queue' = Append(vad_events_queue, <<r.event, r.message>>)
       /\ stt_queue' = stt_queue \o SttItems(r)
       /\ sttPuts' = sttPuts \o [i \in 1..Len(SttItems(r)) |-> <<recv + 1, SttItems(r)[i]>>]
    /\ recv' = recv + 1
    /\ UNCHANGED <<stopAt, sttRunning, sttpc, sttTick, mainpc>>
    /\ UNCHANGED cliVars
    /\ UNCHANGED srvVars

(* the response loop ends (the call is over, with or without RpcError) and *)
(* stream_file returns; it leaves running as it is                         *)
StreamFileReturn ==
    /\ cpc = "streaming"
    /\ pc[ClientPeer] \in {"OK", "INTERNAL"}
    /\ recv = Len(out[ClientPeer])
    /\ cpc' = "returned"
    /\ UNCHANGED <<wav, running, rpc, data, wpos, yielded>>
    /\ UNCHANGED rtrVars
    /\ UNCHANGED srvVars

(* ---- STTProcessor ---- *)
(* process_stt_queue up to its loop *)
SttStart ==
    /\ sttpc = "init"
    /\ sttRunning' = TRUE
    /\ sttpc' = "loop"
    /\ UNCHANGED <<stopAt, recv, vad_events_queue, stt_queue, sttPuts, sttTick, mainpc>>
    /\ UNCHANGED cliVars
    /\ UNCHANGED srvVars

(* the loop test fails after stop() *)
SttLoopExit ==
    /\ sttpc = "loop"
    /\ ~sttRunning
    /\ sttpc' = "exited"
    /\ UNCHANGED <<stopAt, recv, vad_events_queue, stt_queue, sttPuts, sttRunning,
                   sttTick, mainpc>>
    /\ UNCHANGED cliVars
    /\ UNCHANGED srvVars

(* stt_queue.get returns a message *)
SttGet ==
    /\ sttpc = "loop"
    /\ sttRunning
    /\ stt_queue # <<>>
    /\ stt_queue' = Tail(stt_queue)
    /\ UNCHANGED <<stopAt, recv, vad_events_queue, sttPuts, sttRunning, sttpc,
                   sttTick, mainpc>>
    /\ UNCHANGED cliVars
    /\ UNCHANGED srvVars

(* a loop that leaves as soon as the queue is empty *)
SttTimeoutLeaves ==
    /\ sttpc = "loop"
    /\ sttRunning
    /\ stt_queue = <<>>
    /\ sttpc' = "exited"
    /\ UNCHANGED <<stopAt, recv, vad_events_queue, stt_queue, sttPuts, sttRunning,
                   sttTick, mainpc>>
    /\ UNCHANGED cliVars
    /\ UNCHANGED srvVars

(* stt_queue.get times out (queue.Empty): break when the client is not     *)
(* running, else go round the loop again                                   *)
SttTimeout ==
    /\ sttpc = "loop"
    /\ sttRunning
    /\ stt_queue = <<>>
    /\ IF ~running
       THEN sttpc' = "exited" /\ UNCHANGED sttTick
       ELSE sttTick' = ~sttTick /\ UNCHANGED sttpc
    /\ UNCHANGED <<stopAt, recv, vad_events_queue, stt_queue, sttPuts, sttRunning,
                   mainpc>>
    /\ UNCHANGED cliVars
    /\ UNCHANGED srvVars

(* STTProcessor.stop *)
SttStop ==
    /\ sttRunning
    /\ sttRunning' = FALSE
    /\ UNCHANGED <<stopAt, recv, vad_events_queue, stt_queue, sttPuts, sttpc,
                   sttTick, mainpc>>
    /\ UNCHANGED cliVars
    /\ UNCHANGED srvVars

(* ---- main ---- *)
(* vad_thread.join() returns *)
MainJoinVad ==
    /\ mainpc = "join_vad"
    /\ cpc = "returned"
    /\ mainpc' = "join_stt"
    /\ UNCHANGED <<stopAt, recv, vad_events_queue, stt_queue, sttPuts, sttRunning,
                   sttpc, sttTick>>
    /\ UNCHANGED cliVars
    /\ UNCHANGED srvVars

(* stt_thread.join() returns; the finally clause stops both *)
MainJoinStt ==
    /\ mainpc = "join_stt"
    /\ sttpc = "exited"
    /\ mainpc' = "done"
    /\ running' = FALSE
    /\ sttRunning' = FALSE
    /\ UNCHANGED <<stopAt, recv, vad_events_queue, stt_queue, sttPuts, sttpc, sttTick>>
    /\ UNCHANGED <<wav, cpc, rpc, data, wpos, yielded>>
    /\ UNCHANGED srvVars

(* ---- specifications ---- *)
StreamOpen == \E id \in Peers : Opened < MaxStreams /\ OpenStream(id)

StreamFrame == \E id \in Peers, c \in Chunks : nframes < MaxFrames /\ ProcessFrame(id, c)

StreamResume == \E id \in Peers : Resume(id)

StreamEnd == \E id \in Peers, cause \in {"eof", "error"} : Terminate(id, cause)

Resets == SumOver([i \in Peers |-> Len(resetResp[i])], Peers)

Reset == \E id \in Peers : Resets < MaxResets /\ ResetVAD(id)

(* streams only *)
NextStreams == StreamOpen \/ StreamFrame \/ StreamResume \/ StreamEnd

SpecStreams == Init /\ [][NextStreams]_vars

(* streams and ResetVAD calls *)
BasicFrame ==
    \E id \in Peers, c \in BasicChunks : nframes < MaxFrames /\ ProcessFrame(id, c)

Next == StreamOpen \/ BasicFrame \/ StreamResume \/ StreamEnd \/ Reset

Spec == Init /\ [][Next]_vars

(* every peer runs the scripted scenario once *)
ScenarioOpen == \E id \in Peers : gen[id] = 0 /\ OpenStream(id)

ScenarioFrame ==
    \E id \in Peers :
        /\ Len(fed[id]) < Len(Script)
        /\ ProcessFrame(id, ScriptChunk(Len(fed[id]) + 1))

ScenarioEnd == \E id \in Peers : Len(fed[id]) = Len(Script) /\ Terminate(id, "eof")

NextScenario == ScenarioOpen \/ ScenarioFrame \/ StreamResume \/ ScenarioEnd

SpecScenario == Init /\ [][NextScenario]_vars

(* the file client reading one file *)
InitClient == ServerInit /\ (\E w \in WavFiles : ClientInit(w)) /\ SttInit

NextClient == StreamFileStart \/ RwfOpen \/ RwfLoop \/ RwfYield \/ RwfNext \/ StopStreaming

SpecClient == InitClient /\ [][NextClient]_vars

(* the file client, the server and the STT consumer together: the client  *)
(* streams one file on its connection                                     *)
E2EFiles ==
    {w \in WavFiles :
        /\ w.nchannels = 1 /\ w.sampwidth = 2
        /\ w.ok => w.exists
        /\ w.nbytes % (2 * VAD_CHUNK_SIZE) # 1}

(* what the scorer may do with a chunk *)
ScorerOutcomes ==
    { [raises |-> FALSE, prob |-> 10], [raises |-> FALSE, prob |-> 90],
      [raises |-> TRUE, prob |-> 0] }

InitE2E == ServerInit /\ (\E w \in E2EFiles : ClientInit(w)) /\ SttInit

E2EOpen == cpc = "streaming" /\ gen[ClientPeer] = 0 /\ OpenStream(ClientPeer)

(* the server reads the next buffer the client has yielded *)
E2EFrame ==
    \E o \in ScorerOutcomes :
        /\ Len(fed[ClientPeer]) < Len(yielded)
        /\ ProcessFrame(ClientPeer,
                        [len |-> BufLen(yielded[Len(fed[ClientPeer]) + 1]),
                         raises |-> o.raises, prob |-> o.prob])

(* the request sequence has ended and all of it has been read *)
E2EEof ==
    /\ rpc = "done"
    /\ Len(fed[ClientPeer]) = Len(yielded)
    /\ Terminate(ClientPeer, "eof")

(* the transport fails *)
E2EFault == Terminate(ClientPeer, "error")

ClientThread == StreamFileStart \/ ClientRecv \/ StreamFileReturn

RequestThread == RwfOpen \/ RwfLoop \/ RwfYield \/ RwfNext

ServerThread == E2EOpen \/ E2EFrame \/ StreamResume \/ E2EEof

SttThread == SttStart \/ SttGet \/ SttTimeout \/ SttLoopExit

MainThread == MainJoinVad \/ MainJoinStt

NextE2E ==
    \/ StreamFileStart \/ ClientRecv \/ StreamFileReturn
    \/ RwfOpen \/ RwfLoop \/ RwfYield \/ RwfNext
    \/ E2EOpen \/ E2EFrame \/ StreamResume \/ E2EEof \/ E2EFault
    \/ SttStart \/ SttGet \/ SttTimeout \/ SttLoopExit
    \/ MainJoinVad \/ MainJoinStt
    \/ StopStreaming \/ SttStop

(* every thread that can run does run; stop_streaming, stop and transport *)
(* faults need not happen                                                 *)
SpecE2E ==
    /\ InitE2E
    /\ [][NextE2E]_vars
    /\ WF_vars(ClientThread)
    /\ WF_vars(RequestThread)
    /\ WF_vars(ServerThread)
    /\ WF_vars(SttThread)
    /\ WF_vars(MainThread)

(* ---- properties ---- *)
Last(s) == s[Len(s)]

EventsOf(resps) == [i \in 1..Len(resps) |-> resps[i].event]

IsEvent(st) == st # "continue"

(* a stream run alone on a new processor: fold of the request loop *)
RECURSIVE RunAlone(_)
RunAlone(chunks) ==
    IF chunks = <<>>
    THEN [proc |-> NewProcessor, out |-> <<>>]
    ELSE LET prev == RunAlone(SubSeq(chunks, 1, Len(chunks) - 1))
             h == HandleRequest(prev.proc, Last(chunks))
         IN  [proc |-> h.proc, out |-> prev.out \o h.resp]

Streaming(id) == pc[id] \in {"reading", "yielded"}

Ended(id) == pc[id] \in {"OK", "INTERNAL"}

(* the statuses and the events the scenario must give, frame by frame *)
ScenarioStatuses ==
    <<"continue", "continue", "start", "continue", "continue",
      "end", "continue", "start", "end", "continue">>

ScenarioEvents == <<"start", "end", "start", "end">>

ScenarioEventFrames == {3, 6, 8, 9}

(* C1: on a fresh session fed the scripted probabilities, the events      *)
(* emitted are exactly start at frame 3, end at frame 6, start at frame 8 *)
(* and end at frame 9, in that order, and nothing else.                   *)
C1_ScenarioEvents ==
    \A id \in Peers :
        LET n == Len(fed[id]) IN
        /\ statuses[id] = SubSeq(ScenarioStatuses, 1, n)
        /\ EventsOf(out[id]) =
               SubSeq(ScenarioEvents, 1, Cardinality({f \in ScenarioEventFrames : f <= n}))

C1_Witness ==
    \E id \in Peers : pc[id] = "OK" /\ Len(fed[id]) = Len(Script) /\ Len(out[id]) = 4

(* C2: for a chunk that is scored, the status and the next state depend   *)
(* on (speaking, probability) only, with detected = probability > 0.7:    *)
(* silent and detected gives start and speaking, speaking and not         *)
(* detected gives end and silent, the two other cases give continue and   *)
(* leave the state as it is; 0.7 itself is not detected.                  *)
C2_Transition ==
    [][\A id \in Peers :
          (Len(fed'[id]) = Len(fed[id]) + 1
              /\ Last(fed'[id]).len % 2 = 0 /\ ~Last(fed'[id]).raises)
          => LET speaking == client_processors[PeerOf(id)].speech_detected
                 detected == Last(fed'[id]).prob > 70
                 after == client_processors'[PeerOf(id)].speech_detected
                 st == Last(statuses'[id])
             IN  /\ (~speaking /\ detected) => (st = "start" /\ after)
                 /\ (speaking /\ ~detected) => (st = "end" /\ ~after)
                 /\ (~speaking /\ ~detected) => (st = "continue" /\ ~after)
                 /\ (speaking /\ detected) => (st = "continue" /\ after)]_vars

C2_Witness ==
    \E id \in Peers :
        /\ Len(fed[id]) = 3
        /\ fed[id][1].prob = 90 /\ statuses[id][1] = "start"
        /\ fed[id][2].prob = 90 /\ statuses[id][2] = "continue"
        /\ fed[id][3].prob = Threshold /\ statuses[id][3] = "end"

(* sum of the byte lengths of chunks a..b of a log *)
RECURSIVE SumLens(_, _, _)
SumLens(chunks, a, b) ==
    IF a > b THEN 0 ELSE chunks[a].len + SumLens(chunks, a + 1, b)

(* the last frame before frame n whose status was end, 0 when none *)
LastEndBefore(sts, n) ==
    LET E == {i \in 1..(n - 1) : sts[i] = "end"}
    IN  IF E = {} THEN 0 ELSE CHOOSE i \in E : \A j \in E : j <= i

(* the k-th response of a stream was yielded on this frame *)
FrameOfResponse(sts, k) ==
    CHOOSE i \in 1..Len(sts) :
        IsEvent(sts[i]) /\ Cardinality({j \in 1..i : IsEvent(sts[j])}) = k

(* C3: every chunk passed to process_chunk is appended to the accumulator *)
(* whatever the status, so the byte count of an end message is the sum of *)
(* the byte lengths of all chunks read since the stream began or since    *)
(* the last end, and the accumulator is empty right after the end.        *)
C3_EndBytesAllFrames ==
    \A id \in Peers :
        /\ Streaming(id) =>
              SumSeq(client_processors[PeerOf(id)].accumulated_audio) =
                  SumLens(fed[id], LastEndBefore(statuses[id], Len(fed[id]) + 1) + 1,
                          Len(fed[id]))
        /\ \A k \in 1..Len(out[id]) :
              out[id][k].event = "end" =>
                  LET n == FrameOfResponse(statuses[id], k)
                  IN  out[id][k].bytes =
                          SumLens(fed[id], LastEndBefore(statuses[id], n) + 1, n)

(* C4 as stated: once a stream has ended its peer has no registry entry *)
C4_EntryRemoved ==
    \A id \in Peers : Ended(id) => PeerOf(id) \notin DOMAIN client_processors

(* C4: once a stream has ended, by EOF or by an error, the entry of its   *)
(* peer is still in the registry and has been reset: not speaking, empty  *)
(* accumulator.                                                           *)
C4_EntryKeptReset ==
    \A id \in Peers :
        Ended(id) =>
            /\ PeerOf(id) \in DOMAIN client_processors
            /\ client_processors[PeerOf(id)] =
                   [speech_detected |-> FALSE, accumulated_audio |-> <<>>]

C4_Witness ==
    \E id \in Peers :
        /\ pc[id] = "INTERNAL"
        /\ statuses[id] # <<>> /\ Last(statuses[id]) = "start"

(* C5: a stream opened on a peer whose earlier stream has ended starts    *)
(* not speaking with an empty accumulator: its responses (events and byte *)
(* counts) and its state are those of the same chunks on a new processor. *)
C5_ReuseStartsFresh ==
    \A id \in Peers :
        (gen[id] >= 2 /\ Streaming(id)) =>
            /\ out[id] = RunAlone(fed[id]).out
            /\ client_processors[PeerOf(id)] = RunAlone(fed[id]).proc

C5_Witness ==
    \E id \in Peers :
        /\ gen[id] = 2 /\ pc[id] = "yielded"
        /\ Len(fed[id]) = 1 /\ EventsOf(out[id]) = <<"start">>

(* C6: ResetVAD returns success = true for a peer with a session in any   *)
(* state and for a peer never seen; after it a session of that peer is    *)
(* not speaking with an empty accumulator; a second call right after      *)
(* changes nothing.                                                       *)
C6_ResetVAD ==
    [][\A id \in Peers :
          Len(resetResp'[id]) = Len(resetResp[id]) + 1 =>
              /\ Last(resetResp'[id]) = TRUE
              /\ PeerOf(id) \in DOMAIN client_processors' =>
                     client_processors'[PeerOf(id)] =
                         [speech_detected |-> FALSE, accumulated_audio |-> <<>>]
              /\ ResetVADProcs(client_processors', id) = client_processors'
              /\ DOMAIN client_processors' = DOMAIN client_processors]_vars

C6_Witness ==
    \E a \in Peers :
        /\ resetResp[a] = <<TRUE>> /\ Streaming(a)
        /\ statuses[a] # <<>> /\ Last(statuses[a]) = "start"
        /\ ~client_processors[PeerOf(a)].speech_detected

ScenarioResponses ==
    <<[event |-> "start", message |-> "Speech detected", bytes |-> 0],
      [event |-> "end", message |-> "Speech ended", bytes |-> 6144],
      [event |-> "start", message |-> "Speech detected", bytes |-> 0],
      [event |-> "end", message |-> "Speech ended", bytes |-> 3072]>>

(* C7: with streams of distinct peers interleaved in any way, the         *)
(* responses of each stream (events and end byte counts) and the state of *)
(* its session are those of the stream run alone; each stream of the      *)
(* 10-frame scenario ends with the same four responses.                   *)
C7_Independent ==
    \A id \in Peers :
        /\ Streaming(id) =>
              /\ out[id] = RunAlone(fed[id]).out
              /\ client_processors[PeerOf(id)] = RunAlone(fed[id]).proc
        /\ Len(fed[id]) = Len(Script) => out[id] = ScenarioResponses

C7_Witness ==
    \E a, b \in Peers :
        /\ a # b
        /\ Len(fed[a]) = Len(Script) /\ pc[a] = "OK"
        /\ Len(fed[b]) = 4 /\ pc[b] = "reading"
        /\ client_processors[PeerOf(b)].speech_detected
        /\ ~client_processors[PeerOf(a)].speech_detected

NonContinue(sts) == SelectSeq(sts, IsEvent)

(* C8: a stream's responses are, in frame order, one per frame whose      *)
(* status is start or end and none for a continue; each is there as soon  *)
(* as its frame is processed, before the next frame is read; no response  *)
(* carries continue.                                                      *)
C8_OneResponsePerEvent ==
    \A id \in Peers :
        /\ EventsOf(out[id]) = NonContinue(statuses[id])
        /\ \A k \in 1..Len(out[id]) : out[id][k].event \in {"start", "end"}
        /\ pc[id] = "yielded" => (statuses[id] # <<>> /\ IsEvent(Last(statuses[id])))

C8_Witness ==
    \E id \in Peers :
        /\ statuses[id] = <<"start", "continue", "end">>
        /\ EventsOf(out[id]) = <<"start", "end">>

ChunkFails(c) == c.raises \/ c.len % 2 # 0

ChunkScored(c) == ~ChunkFails(c)

(* C9: a chunk whose scoring fails gives continue: the speaking flag is   *)
(* as before, nothing is sent, the stream goes on reading, and the events *)
(* of the stream are those of the same chunks without the failed ones.    *)
C9_FailureIsContinue ==
    /\ [](\A id \in Peers :
             Streaming(id) =>
                 LET alone == RunAlone(SelectSeq(fed[id], ChunkScored))
                 IN  /\ EventsOf(out[id]) = EventsOf(alone.out)
                     /\ client_processors[PeerOf(id)].speech_detected =
                            alone.proc.speech_detected)
    /\ [][\A id \in Peers :
             (Len(fed'[id]) = Len(fed[id]) + 1 /\ ChunkFails(Last(fed'[id]))) =>
                 /\ Last(statuses'[id]) = "continue"
                 /\ client_processors'[PeerOf(id)].speech_detected =
                        client_processors[PeerOf(id)].speech_detected
                 /\ out'[id] = out[id]
                 /\ pc'[id] = "reading"]_vars

C9_Witness ==
    \E id \in Peers :
        /\ Len(fed[id]) = 3
        /\ statuses[id] = <<"start", "continue", "end">>
        /\ fed[id][2].raises

(* C10: every buffer read_wav_file yields is VAD_CHUNK_SIZE * 2 bytes     *)
(* long, whatever the channel count and sample width of the file.         *)
C10_BuffersAre1024 ==
    \A i \in 1..Len(yielded) : BufLen(yielded[i]) = 1024

MonoPcm16(w) == w.nchannels = 1 /\ w.sampwidth = 2

(* the generator has ended and stop_streaming was never called *)
ReadToEnd == rpc = "done" /\ running /\ wav.ok

(* C11: a mono 16-bit file of L bytes read to its end without a stop      *)
(* gives ceil(L / 1024) buffers; a full read is yielded as it is; at most *)
(* one buffer is padded and it is the last; the padded buffer is the rest *)
(* of the file followed by zero bytes only; an empty read ends the        *)
(* sequence and is not yielded.                                           *)
C11_ChunkingMono16 ==
    (MonoPcm16(wav) /\ ReadToEnd) =>
        /\ Len(yielded) = (wav.nbytes + 1023) \div 1024
        /\ SumSeq([i \in 1..Len(yielded) |-> yielded[i].src]) = wav.nbytes
        /\ \A i \in 1..Len(yielded) :
              /\ yielded[i].src > 0
              /\ yielded[i].src + yielded[i].pad = 1024
              /\ yielded[i].pad > 0 => i = Len(yielded)
              /\ i < Len(yielded) => yielded[i] = [src |-> 1024, pad |-> 0]

C11_Witness ==
    /\ MonoPcm16(wav) /\ ReadToEnd
    /\ wav.nbytes = 2 * 1024 + 1000
    /\ Len(yielded) = 3
    /\ yielded[3] = [src |-> 1000, pad |-> 24]

ResetState == [speech_detected |-> FALSE, accumulated_audio |-> <<>>]

(* C13: when the request iterator of one stream raises, that stream alone *)
(* ends and the session of its peer alone is reset: flag, accumulator and *)
(* registry entry of every other peer are untouched, and the other        *)
(* streams go on giving the responses of their own chunks.                *)
C13_FaultIsLocal ==
    /\ [](\A j \in Peers : Streaming(j) => out[j] = RunAlone(fed[j]).out)
    /\ [][\A id \in Peers :
             (pc[id] = "reading" /\ pc'[id] = "INTERNAL") =>
                 /\ DOMAIN client_processors' = DOMAIN client_processors
                 /\ client_processors'[PeerOf(id)] = ResetState
                 /\ \A j \in Peers \ {id} :
                       /\ pc'[j] = pc[j]
                       /\ out'[j] = out[j]
                       /\ PeerOf(j) \in DOMAIN client_processors =>
                              client_processors'[PeerOf(j)] =
                                  client_processors[PeerOf(j)]]_vars

C13_Witness ==
    \E a, b \in Peers :
        /\ a # b
        /\ pc[a] = "INTERNAL" /\ statuses[a] = <<"start">>
        /\ pc[b] = "reading" /\ statuses[b] = <<"start">>
        /\ client_processors[PeerOf(b)].speech_detected
        /\ client_processors[PeerOf(b)].accumulated_audio # <<>>

(* C15 as stated: a chunk of any byte length on which the scorer does not *)
(* raise is brought to 512 samples and scored, the transition rule is     *)
(* applied to it, and the stream stays open.                              *)
C15_AnyLengthScored ==
    [][\A id \in Peers :
          (Len(fed'[id]) = Len(fed[id]) + 1 /\ ~Last(fed'[id]).raises)
          => LET speaking == client_processors[PeerOf(id)].speech_detected
                 detected == Last(fed'[id]).prob > 70
                 after == client_processors'[PeerOf(id)].speech_detected
                 st == Last(statuses'[id])
             IN  /\ Streaming(id)'
                 /\ st = IF ~speaking /\ detected THEN "start"
                         ELSE IF speaking /\ ~detected THEN "end"
                         ELSE "continue"
                 /\ after = detected]_vars

Alternates(ev) ==
    \A k \in 1..Len(ev) : ev[k] = IF k % 2 = 1 THEN "start" ELSE "end"

(* C16 as stated: the events of a stream alternate, start first, also     *)
(* with ResetVAD calls for the peer between its frames                    *)
C16_Alternate == \A id \in Peers : Alternates(EventsOf(out[id]))

(* C16: the events of a stream alternate, start first, whatever its       *)
(* chunks (failed ones included), as long as no ResetVAD was called for   *)
(* its peer; with ResetVAD calls between its frames a start may follow a  *)
(* start, but the first event is a start and an end always comes right    *)
(* after a start.                                                         *)
C16_AlternateUnlessReset ==
    \A id \in Peers :
        LET ev == EventsOf(out[id]) IN
        /\ ev # <<>> => ev[1] = "start"
        /\ \A k \in 1..Len(ev) : ev[k] = "end" => (k > 1 /\ ev[k - 1] = "start")
        /\ resetResp[id] = <<>> => Alternates(ev)

C16_Witness ==
    \E id \in Peers :
        /\ resetResp[id] # <<>>
        /\ EventsOf(out[id]) = <<"start", "start", "end">>

EverOpened == {id \in Peers : gen[id] > 0}

(* C17: the registry never has more entries than there are peers that     *)
(* have opened a stream; processing a chunk adds no entry; ResetVAD adds  *)
(* no entry and leaves the registry as it is for a peer without entry.    *)
C17_RegistryBounded ==
    /\ [](Cardinality(DOMAIN client_processors) <= Cardinality(EverOpened))
    /\ [][\A id \in Peers :
             /\ Len(fed'[id]) = Len(fed[id]) + 1 =>
                    DOMAIN client_processors' = DOMAIN client_processors
             /\ Len(resetResp'[id]) = Len(resetResp[id]) + 1 =>
                    /\ DOMAIN client_processors' = DOMAIN client_processors
                    /\ PeerOf(id) \notin DOMAIN client_processors =>
                           client_processors' = client_processors]_vars

C17_Witness ==
    \E a, b \in Peers :
        /\ gen[a] = 0 /\ resetResp[a] # <<>>
        /\ gen[b] = 2 /\ Len(fed[b]) = 1 /\ nframes = 3
        /\ DOMAIN client_processors = {PeerOf(b)}

(* C14: the handler finishes when its request iterator does: after the    *)
(* end of input the call ends without error, after an exception raised    *)
(* while reading input it ends with INTERNAL; either way the session has  *)
(* been reset when the handler has finished.                              *)
C14_EndsWithInbound ==
    /\ [](\A id \in Peers :
             /\ inbound[id] = "eof" => pc[id] = "OK"
             /\ inbound[id] = "error" => pc[id] = "INTERNAL"
             /\ Ended(id) => inbound[id] \in {"eof", "error"})
    /\ [][\A id \in Peers :
             (inbound[id] = "open" /\ inbound'[id] # "open") =>
                 /\ Ended(id)'
                 /\ client_processors'[PeerOf(id)] = ResetState
                 /\ out'[id] = out[id]]_vars

C14_Witness ==
    \E a, b \in Peers :
        /\ inbound[a] = "eof" /\ pc[a] = "OK" /\ statuses[a] = <<"start">>
        /\ inbound[b] = "error" /\ pc[b] = "INTERNAL" /\ statuses[b] = <<"start">>

(* the responses of the client's call received so far, each with its place *)
Received == [i \in 1..recv |-> <<i, out[ClientPeer][i]>>]

ReceivedEnd(x) == x[2].event = "end"

ReceivedEnds == SelectSeq(Received, ReceivedEnd)

(* C12: every response received is on vad_events_queue in arrival order;  *)
(* the items ever put on stt_queue are the messages of the end responses  *)
(* received, once each and in arrival order, and none comes from a start  *)
(* response; so their number is the number of end events received, and    *)
(* what is still queued is what has not been taken yet                    *)
C12_RouterForwards ==
    /\ recv <= Len(out[ClientPeer])
    /\ vad_events_queue =
           [i \in 1..recv |-> <<out[ClientPeer][i].event, out[ClientPeer][i].message>>]
    /\ sttPuts = [i \in 1..Len(ReceivedEnds) |->
                      <<ReceivedEnds[i][1], ReceivedEnds[i][2].message>>]
    /\ Len(sttPuts) = Cardinality({i \in 1..recv : out[ClientPeer][i].event = "end"})
    /\ \A i \in 1..Len(sttPuts) : out[ClientPeer][sttPuts[i][1]].event # "start"
    /\ \E k \in 0..Len(sttPuts) :
           stt_queue = [i \in 1..(Len(sttPuts) - k) |-> sttPuts[k + i][2]]

(* a start, an end and a second start have been received; the end alone   *)
(* was forwarded and the consumer has taken it                            *)
C12_Witness ==
    /\ recv = 3
    /\ out[ClientPeer][1].event = "start"
    /\ out[ClientPeer][3].event = "start"
    /\ sttPuts = <<<<2, "Speech ended">>>>
    /\ stt_queue = <<>>

(* C18: once stream_file has returned and stt_queue is empty, the consumer *)
(* loop exits and main's joins return                                     *)
C18_SttExitsOnItsOwn ==
    (cpc = "returned" /\ stt_queue = <<>>) ~> (sttpc = "exited" /\ mainpc = "done")

(* what does hold: the loop exits once stop_streaming has been called     *)
(* after stream_file began                                                *)
SttExitsAfterStop ==
    (cpc = "returned" /\ ~running /\ stt_queue = <<>>) ~> (sttpc = "exited")

(* the server handler of the client's stream is over and has reset the    *)
(* session of the client's peer                                           *)
ServerCleanedUp ==
    /\ Ended(ClientPeer)
    /\ client_processors[PeerOf(ClientPeer)] = ResetState

(* C19: after stop_streaming is called while stream_file is streaming,    *)
(* read_wav_file yields at most one further buffer and then ends the      *)
(* request sequence (unless a transport fault has ended the call before); *)
(* the server handler ends normally only after the request sequence has   *)
(* ended and all of it was read, and it does end and reset the session of *)
(* that stream                                                            *)
C19_StopEndsStream ==
    /\ [](stopAt # <<>> => Len(yielded) <= stopAt[1] + 1)
    /\ [](pc[ClientPeer] = "OK" => rpc = "done" /\ Len(fed[ClientPeer]) = Len(yielded))
    /\ (stopAt # <<>>) ~> (rpc = "done" \/ pc[ClientPeer] = "INTERNAL")
    /\ (stopAt # <<>>) ~> ServerCleanedUp

(* stop_streaming came between the loop test and the yield: one further   *)
(* buffer went out, the server read it and cleaned up on a normal end,    *)
(* and the rest of the file was never read                                *)
C19_Witness ==
    /\ stopAt # <<>>
    /\ Len(yielded) = stopAt[1] + 1
    /\ rpc = "done"
    /\ wpos < wav.nbytes
    /\ Len(fed[ClientPeer]) = Len(yielded)
    /\ pc[ClientPeer] = "OK"
    /\ client_processors[PeerOf(ClientPeer)] = ResetState

====
